---- MODULE Spec2Model ----
(***************************************************************************)
(* The HDFS -> S3 transfer pipeline of src/src/main.py (main, lines        *)
(* 179-267) with the helpers it calls: check_user_access and its two       *)
(* subprocess lookups, generate_checksum / verify_checksum, the Fernet     *)
(* cipher of src/src/encryption.py, TransferMonitor.log_transfer_stats and *)
(* TransferNotifier.send_notification.                                     *)
(*                                                                         *)
(* Every external call (secret store, subprocess, HDFS, S3, CloudWatch,    *)
(* SNS) is a nondeterministic choice over the outcomes the call can have:  *)
(* a value, or an exception.                                               *)
(***************************************************************************)
EXTENDS Integers, Sequences, FiniteSets, TLC

\* ------------------------------------------------------------------ bounds
\* Longest source file content, in bytes.
MaxLen == 2
\* Byte values are 0 .. ByteMod-1.
ByteMod == 2
\* Longest list of groups `id -Gn` prints.
MaxGroups == 2
\* The wall clock reads 0 .. MaxTime.
MaxTime == 1

Byte == 0 .. (ByteMod - 1)
ByteSeqs(n) == UNION {[1..k -> Byte] : k \in 0..n}

\* None, for variables that hold bytes / a checksum / a subprocess result.
NoBytes == <<-1>>
NoChecksum == <<"None">>
NoError == <<>>

\* ------------------------------------------------------- integrity.py
\* hashlib digest of a byte string, taken to be collision free: the bytes
\* read as a numeral with digits 1..ByteMod.
RECURSIVE Digest(_)
Digest(data) ==
    IF data = <<>> THEN 0
    ELSE Digest(SubSeq(data, 1, Len(data) - 1)) * (ByteMod + 1)
         + (data[Len(data)] + 1)

\* A checksum that is always taken with the default algorithm.
generate_checksum_fixed(data, algorithm) == <<"sha256", Digest(data)>>

\* generate_checksum(data, algorithm): the hex digest, which depends on the
\* algorithm as well as on the data.
generate_checksum(data, algorithm) == <<algorithm, Digest(data)>>

DefaultAlgorithm == "sha256"

\* A verification that accepts anything.
verify_checksum_always(original_data, received_checksum) == TRUE

\* verify_checksum(original_data, received_checksum)
verify_checksum(original_data, received_checksum) ==
    generate_checksum(original_data, DefaultAlgorithm) = received_checksum

\* ------------------------------------------------------- encryption.py
\* A Fernet token: version byte, IV, the encrypted body, the HMAC.
FernetVersion == 1

RECURSIVE SumSeq(_)
SumSeq(s) == IF s = <<>> THEN 0 ELSE s[1] + SumSeq(Tail(s))

FernetBody(key, iv, data) ==
    [i \in 1..Len(data) |-> (data[i] + key + iv) % ByteMod]

FernetMac(key, iv, body) == (SumSeq(body) + key + iv + 1) % ByteMod

FernetEncrypt(key, iv, data) ==
    <<FernetVersion, iv>> \o FernetBody(key, iv, data)
        \o <<FernetMac(key, iv, FernetBody(key, iv, data))>>

MsgDataEmpty == <<"Data", "cannot", "be", "empty">>
MsgCiphertextEmpty == <<"Ciphertext", "cannot", "be", "empty">>
MsgInvalidToken == <<"InvalidToken">>

\* encrypt_data without the guard on empty input.
encrypt_data_unguarded(key, iv, data) ==
    [ok |-> TRUE, ciphertext |-> FernetEncrypt(key, iv, data), error |-> NoError]

\* Encryption.encrypt_data(data): the dictionary's 'ciphertext', or the
\* exception raised.
encrypt_data(key, iv, data) ==
    IF data = <<>>
    THEN [ok |-> FALSE, ciphertext |-> NoBytes, error |-> MsgDataEmpty]
    ELSE [ok |-> TRUE, ciphertext |-> FernetEncrypt(key, iv, data),
          error |-> NoError]

FernetValid(key, token) ==
    /\ Len(token) >= 3
    /\ token[1] = FernetVersion
    /\ token[2] \in Byte
    /\ token[Len(token)]
         = FernetMac(key, token[2], SubSeq(token, 3, Len(token) - 1))

\* decrypt_data with its emptiness guard inverted.
decrypt_data_inverted(key, token) ==
    IF token # <<>>
    THEN [ok |-> FALSE, plaintext |-> NoBytes, error |-> MsgCiphertextEmpty]
    ELSE [ok |-> TRUE, plaintext |-> <<>>, error |-> NoError]

\* Encryption.decrypt_data(ciphertext)
decrypt_data(key, token) ==
    IF token = <<>>
    THEN [ok |-> FALSE, plaintext |-> NoBytes, error |-> MsgCiphertextEmpty]
    ELSE IF ~FernetValid(key, token)
    THEN [ok |-> FALSE, plaintext |-> NoBytes, error |-> MsgInvalidToken]
    ELSE [ok |-> TRUE,
          plaintext |-> [i \in 1..(Len(token) - 3) |->
                            (token[i + 2] - key - token[2] + 2 * ByteMod) % ByteMod],
          error |-> NoError]

\* ------------------------------------------- subprocess text handling
Whitespace == {" ", "\n"}

\* str.strip()
RECURSIVE lstrip(_)
lstrip(s) == IF s # <<>> /\ s[1] \in Whitespace THEN lstrip(Tail(s)) ELSE s
RECURSIVE rstrip(_)
rstrip(s) ==
    IF s # <<>> /\ s[Len(s)] \in Whitespace
    THEN rstrip(SubSeq(s, 1, Len(s) - 1)) ELSE s
strip(s) == rstrip(lstrip(s))

\* str.split(): the maximal runs of non-whitespace characters.
RECURSIVE SplitFrom(_, _, _)
SplitFrom(s, cur, acc) ==
    IF s = <<>> THEN (IF cur = <<>> THEN acc ELSE Append(acc, cur))
    ELSE IF s[1] \in Whitespace
         THEN SplitFrom(Tail(s), <<>>, IF cur = <<>> THEN acc ELSE Append(acc, cur))
         ELSE SplitFrom(Tail(s), Append(cur, s[1]), acc)
split(s) == SplitFrom(s, <<>>, <<>>)

Range(s) == {s[i] : i \in 1..Len(s)}

\* Group names: non-empty, without whitespace.
GroupNames == {<<"a">>, <<"b">>, <<"a", "b">>}

\* The lists of distinct groups a user can be in.
GroupLists ==
    {l \in UNION {[1..k -> GroupNames] : k \in 0..MaxGroups} :
        \A i, j \in 1..Len(l) : i # j => l[i] # l[j]}

\* What `hadoop fs -stat %g` prints for a file of group g (g may be empty).
StatOutput(g) == g \o <<"\n">>

\* What `id -Gn` prints for a user in the groups l.
RECURSIVE JoinSpace(_)
JoinSpace(l) ==
    IF l = <<>> THEN <<>>
    ELSE IF Len(l) = 1 THEN l[1]
    ELSE l[1] \o <<" ">> \o JoinSpace(Tail(l))
IdOutput(l) == JoinSpace(l) \o <<"\n">>

\* A subprocess.run(..., check=True) outcome: the process exits 0 and its
\* stdout is captured, it exits non-zero (CalledProcessError), or it cannot
\* be started at all (OSError: FileNotFoundError, PermissionError).
NotRun == [kind |-> "not_run", stdout |-> <<>>]
StatResults ==
    {[kind |-> "ok", stdout |-> StatOutput(g)] : g \in GroupNames \cup {<<>>}}
    \cup {[kind |-> "CalledProcessError", stdout |-> <<>>],
          [kind |-> "OSError", stdout |-> <<>>]}
IdResults ==
    {[kind |-> "ok", stdout |-> IdOutput(l)] : l \in GroupLists}
    \cup {[kind |-> "CalledProcessError", stdout |-> <<>>],
          [kind |-> "OSError", stdout |-> <<>>]}

\* get_file_group(file_path): the group, None (here the empty string, as
\* falsy as None), or the exception that escapes.
get_file_group(res) ==
    CASE res.kind = "ok" -> [raised |-> FALSE, value |-> strip(res.stdout)]
      [] res.kind = "CalledProcessError" -> [raised |-> FALSE, value |-> <<>>]
      [] OTHER -> [raised |-> TRUE, value |-> <<>>]

\* get_user_groups(user)
get_user_groups(res) ==
    CASE res.kind = "ok" -> [raised |-> FALSE, value |-> split(strip(res.stdout))]
      [] res.kind = "CalledProcessError" -> [raised |-> FALSE, value |-> <<>>]
      [] OTHER -> [raised |-> TRUE, value |-> <<>>]

\* check_user_access(file_path, user): "True", "False" or "raised".  The
\* user lookup runs only when the file has a group.
check_user_access(stat, idr) ==
    LET fg == get_file_group(stat) IN
    IF fg.raised THEN "raised"
    ELSE IF fg.value = <<>> THEN "False"
    ELSE LET ug == get_user_groups(idr) IN
         IF ug.raised THEN "raised"
         ELSE IF fg.value \in Range(ug.value) THEN "True" ELSE "False"


\* ------------------------------------------------------------- main.py
\* The messages of the exceptions main raises or catches, as word lists.
MsgAccess == <<"User", "lacks", "access", "permissions">>
MsgChecksumFailed == <<"Checksum", "verification", "failed">>
MsgSecret == <<"SSM", "Error">>
MsgKeyError == <<"KeyError">>
MsgClientInit == <<"client", "construction", "failed">>
MsgOSError == <<"No", "such", "file", "or", "directory">>
MsgHdfs == <<"HdfsError">>
MsgNoCredentials == <<"Unable", "to", "locate", "credentials">>
MsgPutObject == <<"ClientError", "PutObject">>
MsgGetObject == <<"ClientError", "GetObject">>
MsgMetric == <<"Unexpected", "error", "logging", "metric">>
MsgPublish == <<"Unexpected", "error", "sending", "notification">>

\* The stages of the try block, in the order main runs them.
StAuthorize == "Authorize"
StRead == "Read"
StChecksum == "Checksum"
StEncrypt == "Encrypt"
StWrite == "Write"
StVerify == "Verify"

\* log_transfer_stats emits these metrics, in this order.
MetricNames == <<"FileSizeBytes", "TransferDuration", "TransferCount">>
NumMetrics == Len(MetricNames)
\* log_transfer_stats(file_size, duration, status): the three metrics, each
\* with its value, its Status dimension and the Timestamp log_metric gives it.
log_transfer_stats(file_size, duration, status, at) ==
    LET values == <<file_size, duration, 1>> IN
    [i \in 1..NumMetrics |->
        [name |-> MetricNames[i], value |-> values[i], status |-> status,
         at |-> at]]

\* The handler's call, for the exception e it caught: e is not passed on.
FailedStats(e, at) == log_transfer_stats(0, 0, "Failed", at)

VARIABLES
    pc,             \* where main is
    key,            \* the Fernet key of the configuration
    stat_res,       \* outcome of `hadoop fs -stat %g`
    id_res,         \* outcome of `id -Gn`
    access,         \* what check_user_access did: "none", "True", "False", "raised"
    file_content,   \* bytes read from HDFS
    checksum,       \* baseline checksum
    ciphertext,     \* encrypted_data['ciphertext']
    uploads,        \* bodies main passed to put_object
    s3obj,          \* the destination object as main stored it
    downloaded,     \* downloaded['Body'].read()
    compared,       \* current_checksum inside verify_checksum
    err,            \* message of the exception caught (e), or of the config failure
    uncaught,       \* message of the exception that left main
    rep_failed,     \* a metric emission or a publish raised
    metrics,        \* metrics CloudWatch accepted
    notifications,  \* notifications SNS accepted
    trace,          \* stages run, in order
    now,            \* the wall clock, datetime.now()
    start_time,     \* start_time of main
    prev,           \* what the previous invocation of main left behind
    ck              \* a generate_checksum / verify_checksum experiment

vars == <<pc, key, stat_res, id_res, access, file_content, checksum, ciphertext,
          uploads, s3obj, downloaded, compared, err, uncaught, rep_failed,
          metrics, notifications, trace, now, start_time, prev, ck>>

pipeline == <<stat_res, id_res, access, file_content, checksum, ciphertext,
              uploads, s3obj, downloaded, compared>>
reports == <<metrics, notifications, rep_failed>>
\* What no statement of the pipeline touches.
outside == <<now, prev, ck>>

NoTime == -1
NoPrev == [run |-> "none"]
NoCk == [step |-> "none"]

Init ==
    /\ pc = "load_config"
    /\ key = 0
    /\ stat_res = NotRun
    /\ id_res = NotRun
    /\ access = "none"
    /\ file_content = NoBytes
    /\ checksum = NoChecksum
    /\ ciphertext = NoBytes
    /\ uploads = <<>>
    /\ s3obj = NoBytes
    /\ downloaded = NoBytes
    /\ compared = NoChecksum
    /\ err = NoError
    /\ uncaught = NoError
    /\ rep_failed = FALSE
    /\ metrics = <<>>
    /\ notifications = <<>>
    /\ trace = <<>>
    /\ now = 0
    /\ start_time = NoTime
    /\ prev = NoPrev
    /\ ck = NoCk

\* A failed stage that starts over instead of reporting.
StageResultRetry(ok, next) == IF ok THEN next ELSE "authorize"

\* try: ... except Exception: a statement that raises inside the try block
\* transfers control to the handler; otherwise main goes on.
StageResult(ok, next) == IF ok THEN next ELSE "except"

\* A configuration failure that is logged and then ignored.
AfterConfigFallThrough(ok) == "init_monitor"

\* main, lines 193-197: on a configuration failure main returns.
AfterConfig(ok) == IF ok THEN "init_monitor" ELSE "returned"

\* main, lines 181-195: the secret is fetched and the eight keys are read.
LoadConfig ==
    /\ pc = "load_config"
    /\ \E outcome \in {"ok", "fetch_error", "missing_key"}, k \in Byte :
         /\ pc' = AfterConfig(outcome = "ok")
         /\ IF outcome = "ok"
            THEN /\ key' = k
                 /\ err' = err
            ELSE /\ key' = key
                 /\ err' = IF outcome = "fetch_error" THEN MsgSecret ELSE MsgKeyError
    /\ UNCHANGED <<pipeline, reports, uncaught, trace, start_time, outside>>

\* A constructor call outside the try block: it returns, or its exception
\* leaves main.
Construct(at, next) ==
    /\ pc = at
    /\ \E ok \in BOOLEAN :
         IF ok THEN pc' = next /\ uncaught' = uncaught
         ELSE pc' = "raised" /\ uncaught' = MsgClientInit
    /\ UNCHANGED <<key, pipeline, reports, err, trace, outside>>

\* main, line 198: TransferMonitor(region)
InitMonitor ==
    Construct("init_monitor", "init_notifier") /\ start_time' = start_time
\* main, line 199: TransferNotifier(region, topic)
InitNotifier ==
    Construct("init_notifier", "init_kms") /\ start_time' = start_time
\* main, line 200: the cipher is built from (region, key), the signature of
\* Encryption.__init__, which raises on an empty or malformed key.
InitKms ==
    Construct("init_kms", "init_clients") /\ start_time' = start_time
\* main, lines 202-204: start_time is taken, then initialize_clients(config)
\* is called.  It reads
\* config['aws_access_key'], a key the dictionary of lines 183-192 does not
\* hold, so with that dictionary the failing branch is the one taken; the
\* other branch is the call returning the two clients.
InitClients ==
    Construct("init_clients", "authorize") /\ start_time' = now

\* Entering the handler with the exception e.
Raise(msg) == pc' = StageResult(FALSE, "none") /\ err' = msg

\* main, lines 208-209
Authorize ==
    /\ pc = "authorize"
    /\ \E st \in StatResults, idr \in IdResults :
         LET fg == get_file_group(st)
             ran == ~fg.raised /\ fg.value # <<>>
             r == check_user_access(st, idr)
         IN /\ stat_res' = st
            /\ id_res' = IF ran THEN idr ELSE NotRun
            /\ access' = r
            /\ CASE r = "True" -> pc' = StageResult(TRUE, "read") /\ err' = err
                 [] r = "False" -> Raise(MsgAccess)
                 [] OTHER -> Raise(MsgOSError)
    /\ trace' = Append(trace, StAuthorize)
    /\ UNCHANGED <<key, file_content, checksum, ciphertext, uploads, s3obj,
                   downloaded, compared, reports, uncaught,
                   start_time, outside>>

\* main, line 213
Read ==
    /\ pc = "read"
    /\ \/ \E content \in ByteSeqs(MaxLen) :
            /\ file_content' = content
            /\ pc' = StageResult(TRUE, "checksum")
            /\ err' = err
       \/ /\ file_content' = file_content
          /\ Raise(MsgHdfs)
    /\ trace' = Append(trace, StRead)
    /\ UNCHANGED <<key, stat_res, id_res, access, checksum, ciphertext, uploads,
                   s3obj, downloaded, compared, reports, uncaught,
                   start_time, outside>>

\* main, line 216
Checksum ==
    /\ pc = "checksum"
    /\ checksum' = generate_checksum(file_content, DefaultAlgorithm)
    /\ pc' = StageResult(TRUE, "encrypt")
    /\ trace' = Append(trace, StChecksum)
    /\ UNCHANGED <<key, stat_res, id_res, access, file_content, ciphertext,
                   uploads, s3obj, downloaded, compared, reports, err, uncaught,
                   start_time, outside>>

\* main, line 220
Encrypt ==
    /\ pc = "encrypt"
    /\ \E iv \in Byte :
         LET r == encrypt_data(key, iv, file_content) IN
         /\ ciphertext' = r.ciphertext
         /\ pc' = StageResult(r.ok, "upload")
         /\ err' = IF r.ok THEN err ELSE r.error
    /\ trace' = Append(trace, StEncrypt)
    /\ UNCHANGED <<key, stat_res, id_res, access, file_content, checksum,
                   uploads, s3obj, downloaded, compared, reports, uncaught,
                   start_time, outside>>

\* An upload of the file as it was read.
UploadBodyPlain(content, encrypted) == content

\* main, line 228: the body passed to upload_file_to_s3 is
\* encrypted_data['ciphertext'].
UploadBody(content, encrypted) == encrypted

\* main, lines 224-229, and upload_file_to_s3
Upload ==
    /\ pc = "upload"
    /\ uploads' = Append(uploads, UploadBody(file_content, ciphertext))
    /\ \/ /\ s3obj' = UploadBody(file_content, ciphertext)
          /\ pc' = StageResult(TRUE, "get_object")
          /\ err' = err
       \/ /\ s3obj' = s3obj
          /\ \E msg \in {MsgNoCredentials, MsgPutObject} : Raise(msg)
    /\ trace' = Append(trace, StWrite)
    /\ UNCHANGED <<key, stat_res, id_res, access, file_content, checksum,
                   ciphertext, downloaded, compared, reports, uncaught,
                   start_time, outside>>

\* What get_object can return for the key: the object main stored; the
\* source file as it is (the key was overwritten by an unencrypted copy, as
\* the upload of src/hadoop_to_aws.py makes); or the stored object with one
\* byte changed.
ReadBackBodies(stored, content) ==
    {stored, content}
    \cup {[stored EXCEPT ![i] = (stored[i] + 1) % ByteMod] : i \in 1..Len(stored)}

\* main, lines 233-237: the object is fetched and its body read.
GetObject ==
    /\ pc = "get_object"
    /\ \/ \E body \in ReadBackBodies(s3obj, file_content) :
            /\ downloaded' = body
            /\ pc' = StageResult(TRUE, "verify")
            /\ err' = err
       \/ /\ downloaded' = downloaded
          /\ Raise(MsgGetObject)
    /\ trace' = Append(trace, StVerify)
    /\ UNCHANGED <<key, stat_res, id_res, access, file_content, checksum,
                   ciphertext, uploads, s3obj, compared, reports, uncaught,
                   start_time, outside>>

\* main, lines 237-238
Verify ==
    /\ pc = "verify"
    /\ compared' = generate_checksum(downloaded, DefaultAlgorithm)
    /\ IF verify_checksum(downloaded, checksum)
       THEN pc' = StageResult(TRUE, "log_success") /\ err' = err
       ELSE Raise(MsgChecksumFailed)
    /\ UNCHANGED <<key, stat_res, id_res, access, file_content, checksum,
                   ciphertext, uploads, s3obj, downloaded, reports, uncaught,
                   trace,
                   start_time, outside>>

\* main, lines 241-246: log_transfer_stats(..., 'Success').  The first k
\* metrics are accepted; with k < 3 the next log_metric raises.
LogSuccess ==
    /\ pc = "log_success"
    /\ \E k \in 0..NumMetrics :
         /\ metrics' = metrics \o
               SubSeq(log_transfer_stats(Len(file_content), now - start_time,
                                         "Success", now), 1, k)
         /\ pc' = StageResult(k = NumMetrics, "notify_success")
         /\ err' = IF k = NumMetrics THEN err ELSE MsgMetric
         /\ rep_failed' = (rep_failed \/ k < NumMetrics)
    /\ UNCHANGED <<key, pipeline, notifications, uncaught, trace,
                   start_time, outside>>

\* main, lines 248-255
NotifySuccess ==
    /\ pc = "notify_success"
    /\ \/ /\ notifications' =
               Append(notifications, [status |-> "SUCCESS", details |-> <<"Transferred">>])
          /\ pc' = "done"
          /\ err' = err
          /\ rep_failed' = rep_failed
       \/ /\ notifications' = notifications
          /\ Raise(MsgPublish)
          /\ rep_failed' = TRUE
    /\ UNCHANGED <<key, pipeline, metrics, uncaught, trace,
                   start_time, outside>>

\* A handler that goes on to the notification whatever the metrics did.
AfterFailedStatsAlways(k) == "notify_failed"

\* main, lines 259-260: the notification follows the handler's
\* log_transfer_stats only when all of its k = 3 metrics were accepted; an
\* exception there is not caught.
AfterFailedStats(k) == IF k = NumMetrics THEN "notify_failed" ELSE "raised"

\* main, lines 257-259: the handler's log_transfer_stats(0, 0, 'Failed').
LogFailed ==
    /\ pc = "except"
    /\ \E k \in 0..NumMetrics :
         /\ metrics' = metrics \o SubSeq(FailedStats(err, now), 1, k)
         /\ pc' = AfterFailedStats(k)
         /\ uncaught' = IF k = NumMetrics THEN uncaught ELSE MsgMetric
         /\ rep_failed' = (rep_failed \/ k < NumMetrics)
    /\ UNCHANGED <<key, pipeline, notifications, err, trace,
                   start_time, outside>>

\* main, lines 260-267
NotifyFailed ==
    /\ pc = "notify_failed"
    /\ \/ /\ notifications' =
               Append(notifications, [status |-> "FAILED", details |-> err])
          /\ pc' = "done"
          /\ uncaught' = uncaught
          /\ rep_failed' = rep_failed
       \/ /\ notifications' = notifications
          /\ pc' = "raised"
          /\ uncaught' = MsgPublish
          /\ rep_failed' = TRUE
    /\ UNCHANGED <<key, pipeline, metrics, err, trace,
                   start_time, outside>>

Next ==
    \/ LoadConfig
    \/ InitMonitor
    \/ InitNotifier
    \/ InitKms
    \/ InitClients
    \/ Authorize
    \/ Read
    \/ Checksum
    \/ Encrypt
    \/ Upload
    \/ GetObject
    \/ Verify
    \/ LogSuccess
    \/ NotifySuccess
    \/ LogFailed
    \/ NotifyFailed

Spec == Init /\ [][Next]_vars

\* main has ended: it returned, or an exception left it.
Ended == pc \in {"done", "returned", "raised"}

\* The exit status of `python main.py` (main.py 269-270): 1 when an
\* exception left main, 0 when main returned.
ExitStatus == IF pc = "raised" THEN 1 ELSE 0

\* ------------------------------------------------------ the wall clock
\* Time passes while main runs.
Tick ==
    /\ ~Ended
    /\ now < MaxTime
    /\ now' = now + 1
    /\ UNCHANGED <<pc, key, pipeline, reports, err, uncaught, trace,
                   start_time, prev, ck>>

NextTimed == Next \/ Tick

\* main under a clock that advances.
SpecTimed == Init /\ [][NextTimed]_vars

\* ------------------------------------------------ a second invocation
\* What an invocation reported: Success when the SUCCESS notification went
\* out and nothing was reported Failed.
Outcome ==
    IF (\E i \in 1..Len(notifications) : notifications[i].status = "SUCCESS")
       /\ ~(\E i \in 1..Len(metrics) : metrics[i].status = "Failed")
    THEN "Success" ELSE "Failed"

\* Everything outside main worked: access granted, non-empty content, the
\* write accepted, the read-back returning the bytes written, and every
\* reporting call accepted.
HappyRun ==
    /\ access = "True"
    /\ file_content # NoBytes /\ file_content # <<>>
    /\ s3obj # NoBytes /\ s3obj = ciphertext
    /\ downloaded = s3obj
    /\ ~rep_failed

\* main.py 269-270, run again: main starts over with fresh locals.  Nothing
\* of the ended invocation is kept by the program; prev records it for
\* comparison.
Restart ==
    /\ Ended
    /\ prev = NoPrev
    /\ prev' = [run |-> "ended", content |-> file_content,
                checksum |-> checksum, writes |-> Len(uploads),
                outcome |-> Outcome, happy |-> HappyRun]
    /\ pc' = "load_config"
    /\ key' = 0
    /\ stat_res' = NotRun
    /\ id_res' = NotRun
    /\ access' = "none"
    /\ file_content' = NoBytes
    /\ checksum' = NoChecksum
    /\ ciphertext' = NoBytes
    /\ uploads' = <<>>
    /\ s3obj' = NoBytes
    /\ downloaded' = NoBytes
    /\ compared' = NoChecksum
    /\ err' = NoError
    /\ uncaught' = NoError
    /\ rep_failed' = FALSE
    /\ metrics' = <<>>
    /\ notifications' = <<>>
    /\ trace' = <<>>
    /\ start_time' = NoTime
    /\ UNCHANGED <<now, ck>>

NextTwice == Next \/ Restart

\* main run twice.
SpecTwice == Init /\ [][NextTwice]_vars

\* ------------------------------------- integrity.py on its own inputs
Algorithms == {"sha256", "md5", "sha1"}

\* data is checksummed under some algorithm; the checksum is then verified
\* against other.
InitChecksum ==
    /\ pc = "integrity"
    /\ key = 0
    /\ stat_res = NotRun
    /\ id_res = NotRun
    /\ access = "none"
    /\ file_content = NoBytes
    /\ checksum = NoChecksum
    /\ ciphertext = NoBytes
    /\ uploads = <<>>
    /\ s3obj = NoBytes
    /\ downloaded = NoBytes
    /\ compared = NoChecksum
    /\ err = NoError
    /\ uncaught = NoError
    /\ rep_failed = FALSE
    /\ metrics = <<>>
    /\ notifications = <<>>
    /\ trace = <<>>
    /\ now = 0
    /\ start_time = NoTime
    /\ prev = NoPrev
    /\ \E d \in ByteSeqs(MaxLen), o \in ByteSeqs(MaxLen), a \in Algorithms :
         ck = [step |-> "input", data |-> d, algorithm |-> a, other |-> o,
               sum |-> NoChecksum, result |-> FALSE]

\* generate_checksum(data, algorithm)
GenerateCk ==
    /\ ck.step = "input"
    /\ ck' = [ck EXCEPT !.step = "generated",
                        !.sum = generate_checksum(ck.data, ck.algorithm)]
    /\ UNCHANGED <<pc, key, pipeline, reports, err, uncaught, trace, now,
                   start_time, prev>>

\* verify_checksum(other, sum)
VerifyCk ==
    /\ ck.step = "generated"
    /\ ck' = [ck EXCEPT !.step = "verified",
                        !.result = verify_checksum(ck.other, ck.sum)]
    /\ UNCHANGED <<pc, key, pipeline, reports, err, uncaught, trace, now,
                   start_time, prev>>

NextChecksum == GenerateCk \/ VerifyCk

SpecChecksum == InitChecksum /\ [][NextChecksum]_vars


HasMetric(status) == \E i \in 1..Len(metrics) : metrics[i].status = status
HasNotification(status) ==
    \E i \in 1..Len(notifications) : notifications[i].status = status
SuccessReported == HasMetric("Success") \/ HasNotification("SUCCESS")
IsPrefix(s, t) == Len(s) <= Len(t) /\ s = SubSeq(t, 1, Len(s))
PipelineOrder ==
    <<"Authorize", "Read", "Checksum", "Encrypt", "Write", "Verify">>

\* ---------------------------------------------------------------- claims

\* C1: a Success metric or a SUCCESS notification exists only when, in this
\* invocation, the destination object was written, read back, and the bytes
\* read back have the baseline checksum.
C1_SuccessOnlyAfterVerification ==
    SuccessReported =>
        /\ "Verify" \in Range(trace)
        /\ s3obj # NoBytes
        /\ downloaded # NoBytes
        /\ checksum # NoChecksum
        /\ generate_checksum(downloaded, DefaultAlgorithm) = checksum

\* A SUCCESS notification has been published.
C1_Witness == pc = "done" /\ HasNotification("SUCCESS")

\* C2: one invocation never emits metrics under both Status=Success and
\* Status=Failed, and never publishes more than one notification.
C2_ReportingOnce ==
    /\ ~(HasMetric("Success") /\ HasMetric("Failed"))
    /\ Len(notifications) <= 1

\* C3: an invocation that ended after an error has emitted a Failed metric
\* and published a FAILED notification.
C3_FailureReported ==
    (Ended /\ (err # NoError \/ uncaught # NoError)) =>
        (HasMetric("Failed") /\ HasNotification("FAILED"))

\* C4: when access is granted, the content is non-empty, the write succeeds,
\* the read-back returns the bytes written and no reporting call fails, the
\* invocation ends with one Success metric batch and one SUCCESS
\* notification, and no Failed report.
C4_HappyPath ==
    (/\ Ended
     /\ access = "True"
     /\ file_content # NoBytes /\ file_content # <<>>
     /\ s3obj # NoBytes /\ s3obj = ciphertext
     /\ downloaded = s3obj
     /\ ~rep_failed) =>
        /\ Len(metrics) = NumMetrics
        /\ \A i \in 1..Len(metrics) : metrics[i].status = "Success"
        /\ Len(notifications) = 1
        /\ notifications[1].status = "SUCCESS"

\* C5: when the object main stored is read back, the value compared with the
\* baseline is the checksum of the decrypted content, never the checksum of
\* the raw ciphertext.
C5_VerifiesDecrypted ==
    (compared # NoChecksum /\ downloaded = s3obj) =>
        /\ compared = generate_checksum(decrypt_data(key, downloaded).plaintext,
                                        DefaultAlgorithm)
        /\ compared # generate_checksum(downloaded, DefaultAlgorithm)

\* C6: when check_user_access returned False, the invocation ends with no
\* read, no encryption, no destination write, an error detail containing
\* "access", and exactly one notification, of status FAILED.
C6_AccessDenied ==
    (Ended /\ access = "False") =>
        /\ "Read" \notin Range(trace)
        /\ "Encrypt" \notin Range(trace)
        /\ uploads = <<>>
        /\ "access" \in Range(err)
        /\ Len(notifications) = 1
        /\ notifications[1].status = "FAILED"
        /\ "access" \in Range(notifications[1].details)

\* C7: when the write succeeded and the bytes read back do not verify, the
\* invocation ends with a Failed metric, a FAILED notification whose detail
\* is the checksum verification failure, and no Success report.
C7_IntegrityViolation ==
    (/\ Ended
     /\ s3obj # NoBytes
     /\ compared # NoChecksum
     /\ compared # checksum) =>
        /\ HasMetric("Failed")
        /\ \E i \in 1..Len(notifications) :
              /\ notifications[i].status = "FAILED"
              /\ notifications[i].details = MsgChecksumFailed
        /\ ~SuccessReported

\* C8: encrypt_data rejects empty input and produces no ciphertext; with an
\* empty source file the pipeline fails at the encryption stage and no
\* destination write is attempted.
C8_EmptyRejected ==
    /\ \A k \in Byte, iv \in Byte :
          /\ ~encrypt_data(k, iv, <<>>).ok
          /\ encrypt_data(k, iv, <<>>).ciphertext = NoBytes
    /\ (file_content = <<>> /\ "Encrypt" \in Range(trace)) =>
          /\ ciphertext = NoBytes
          /\ err = MsgDataEmpty
          /\ trace = <<"Authorize", "Read", "Checksum", "Encrypt">>
          /\ uploads = <<>>
          /\ s3obj = NoBytes

\* The source file was empty and the handler has reported the failure.
C8_Witness ==
    /\ pc = "done"
    /\ file_content = <<>>
    /\ "Encrypt" \in Range(trace)
    /\ HasNotification("FAILED")

\* C9: a stage runs only while no exception has been raised, and the stages
\* run so far are always a prefix of Authorize, Read, Checksum, Encrypt,
\* Write, Verify (so no stage runs twice and none runs after a failure).
C9_StageOrder ==
    [][trace' # trace =>
          /\ err = NoError
          /\ uncaught = NoError
          /\ IsPrefix(trace', PipelineOrder)
          /\ Len(trace') = Len(trace) + 1]_vars

\* The write failed: the five stages up to it ran, the read-back did not.
C9_Witness ==
    /\ Ended
    /\ err = MsgPutObject
    /\ trace = <<"Authorize", "Read", "Checksum", "Encrypt", "Write">>

\* C10: check_user_access returns True exactly when the file's group is one
\* of the user's groups, and returns False, without raising, when a lookup
\* fails or yields nothing.
C10_AccessIff ==
    access # "none" =>
        /\ stat_res.kind # "ok" => access = "False"
        /\ stat_res = [kind |-> "ok", stdout |-> StatOutput(<<>>)] => access = "False"
        /\ (id_res.kind \notin {"ok", "not_run"}) => access = "False"
        /\ \A g \in GroupNames, l \in GroupLists :
              (/\ stat_res = [kind |-> "ok", stdout |-> StatOutput(g)]
               /\ id_res = [kind |-> "ok", stdout |-> IdOutput(l)])
              => (access = "True" <=> g \in Range(l))


\* C11: when loading the configuration fails, main ends there: no access
\* check, no source read, no encryption, no destination write and no
\* read-back is performed.
C11_ConfigFailureAborts ==
    (err \in {MsgSecret, MsgKeyError}) =>
        /\ pc = "returned"
        /\ trace = <<>>
        /\ access = "none"
        /\ stat_res = NotRun
        /\ file_content = NoBytes
        /\ ciphertext = NoBytes
        /\ uploads = <<>>
        /\ s3obj = NoBytes
        /\ downloaded = NoBytes

\* A required key was absent and main has returned.
C11_Witness == pc = "returned" /\ err = MsgKeyError

\* C12: every TransferDuration metric carries the time elapsed from
\* start_time to the moment it is reported, on the failure path as on the
\* success path.
C12_DurationElapsed ==
    \A i \in 1..Len(metrics) :
        metrics[i].name = "TransferDuration" =>
            metrics[i].value = metrics[i].at - start_time

\* C13: an invocation that has ended has exit status 0 exactly when its
\* outcome is Success.
C13_ExitStatusReflectsOutcome ==
    Ended => (ExitStatus = 0 <=> Outcome = "Success")

\* C14: the ciphertext encrypt_data returned for the non-empty content read
\* is accepted by decrypt_data under the same key and decrypts to that
\* content.
C14_RoundTrip ==
    ciphertext # NoBytes =>
        /\ file_content # <<>>
        /\ decrypt_data(key, ciphertext) =
              [ok |-> TRUE, plaintext |-> file_content, error |-> NoError]

\* A content of the greatest length has been encrypted.
C14_Witness == ciphertext # NoBytes /\ Len(file_content) = MaxLen

\* C15: two invocations on the same source content, each with everything
\* outside main working, both end in Success, each with one destination
\* write, and with the same baseline checksum.
C15_TwoIndependentRuns ==
    (/\ prev # NoPrev
     /\ Ended
     /\ prev.happy
     /\ HappyRun
     /\ prev.content = file_content) =>
        /\ prev.outcome = "Success"
        /\ Outcome = "Success"
        /\ prev.writes = 1
        /\ Len(uploads) = 1
        /\ prev.checksum = checksum

\* C16: a destination write that fails for want of credentials and one that
\* fails on the service side both end in Failed, and the detail given to the
\* notification and the metrics given to telemetry tell the two apart.
C16_WriteFailuresDistinguishable ==
    (pc = "done" /\ err \in {MsgNoCredentials, MsgPutObject}) =>
        /\ Outcome = "Failed"
        /\ MsgNoCredentials # MsgPutObject
        /\ \E i \in 1..Len(notifications) :
              /\ notifications[i].status = "FAILED"
              /\ notifications[i].details = err
        /\ \A t \in 0..MaxTime :
              FailedStats(MsgNoCredentials, t) # FailedStats(MsgPutObject, t)

\* C17: verify_checksum(other, c), for c the checksum of data under some
\* algorithm, is True exactly when the algorithm is sha256 and other is
\* data; that is, exactly when c is the sha256 checksum of other.
C17_VerifyIsSha256Equality ==
    ck.step = "verified" =>
        /\ ck.result <=> (ck.algorithm = "sha256" /\ ck.other = ck.data)
        /\ ck.result <=> (ck.sum = <<"sha256", Digest(ck.other)>>)

\* The checksum of the same data under another algorithm was refused.
C17_Witness ==
    /\ ck.step = "verified"
    /\ ck.algorithm # "sha256"
    /\ ck.other = ck.data
    /\ ~ck.result

\* C18: every body passed to the destination write is the ciphertext that
\* encrypt_data returned, in this invocation, for the content read: it
\* decrypts to that content, it is not that content, and the encryption
\* stage ran before.
C18_OnlyCiphertextWritten ==
    \A i \in 1..Len(uploads) :
        /\ "Encrypt" \in Range(trace)
        /\ ciphertext # NoBytes
        /\ uploads[i] = ciphertext
        /\ uploads[i] # file_content
        /\ FernetValid(key, uploads[i])
        /\ decrypt_data(key, uploads[i]).plaintext = file_content

\* The write was accepted.
C18_Witness == uploads # <<>> /\ s3obj # NoBytes

MetricNamesOf(status) ==
    LET Tagged(m) == m.status = status
        sel == SelectSeq(metrics, Tagged)
    IN [i \in 1..Len(sel) |-> sel[i].name]

\* C19: a notification is published only when the metrics of its status are
\* the full batch FileSizeBytes, TransferDuration, TransferCount, in that
\* order; when a metric emission fails in the handler, no FAILED
\* notification is published and the exception leaves main.
C19_TelemetryBeforeNotification ==
    /\ \A i \in 1..Len(notifications) :
          MetricNamesOf(IF notifications[i].status = "SUCCESS"
                        THEN "Success" ELSE "Failed")
            = <<"FileSizeBytes", "TransferDuration", "TransferCount">>
    /\ IsPrefix(MetricNamesOf("Success"),
                <<"FileSizeBytes", "TransferDuration", "TransferCount">>)
    /\ IsPrefix(MetricNamesOf("Failed"),
                <<"FileSizeBytes", "TransferDuration", "TransferCount">>)
    /\ (uncaught = MsgMetric \/ Len(MetricNamesOf("Failed")) \in {1, 2}) =>
          /\ pc = "raised"
          /\ uncaught = MsgMetric
          /\ Len(MetricNamesOf("Failed")) < 3
          /\ \A i \in 1..Len(notifications) : notifications[i].status # "FAILED"

\* The handler's second metric was refused: one Failed metric, no
\* notification, and the exception has left main.
C19_Witness ==
    /\ pc = "raised"
    /\ uncaught = MsgMetric
    /\ MetricNamesOf("Failed") = <<"FileSizeBytes">>
    /\ notifications = <<>>

====
